---- MODULE Spec2Model ----
(***************************************************************************)
(* Transaction authorizer: the authorization pipeline of                   *)
(* TransacaoService.AutorizarTransacao over the DynamoDB customer table    *)
(* (LimiteRepository) and transaction table (TransacaoRepository).         *)
(*                                                                         *)
(* Every call of AutorizarTransacao is a process; it takes one step per    *)
(* store request (UpdateItem, GetItem, PutItem) and per mutation of the    *)
(* shared Transacao object, so that calls interleave where goroutines can. *)
(* Valor (a float64 in the source) is an integer count of sub-units,       *)
(* SubUnidades of them to the centavo, so that int(Valor * 100) truncates. *)
(***************************************************************************)
EXTENDS Integers, FiniteSets, Sequences, TLC

\* ------------------------------------------------------------------ bounds
\* Number of AutorizarTransacao calls (each call runs once), any input.
MaxChamadas == 2
\* Number of concurrent calls debiting one customer by one amount.
MaxConcorrentes == 3
\* Number of store requests that fail with a store error, over all calls.
MaxFalhas == 1
\* Largest credit limit (centavos) of a customer.
MaxLimite == 3
\* Sub-units of Valor per centavo.
SubUnidades == 2
\* Number of UpdateLimite and CreateCliente calls made beside the service.
MaxAjustes == 1

Chamadas == 1..MaxChamadas
Concorrentes == 1..MaxConcorrentes
\* Every call there may be.
Todas == Chamadas \cup Concorrentes
\* The customer ids with a row the customer table may hold.
Clientes == {"c1", "c2"}
\* The customer ids a request may carry ("" is the empty id).
ClienteIDs == Clientes \cup {""}
\* The amounts a request may carry, in sub-units.
Valores == {-SubUnidades, -1, 0, 1, SubUnidades, 2 * SubUnidades}

\* ------------------------------------------------------- domain constants
StatusAprovada == "APROVADA"
StatusRejeitada == "REJEITADA"
StatusPendente == "PENDENTE"

EventoTransacaoAprovada == "TRANSACAO_APROVADA"
EventoTransacaoRejeitada == "TRANSACAO_REJEITADA"

Nil == "nil"
ErrValorNegativo == "ErrValorNegativo"
ErrValorZero == "ErrValorZero"
ErrClienteInvalido == "ErrClienteInvalido"
ErrLimiteInsuficiente == "ErrLimiteInsuficiente"
ErrClienteNaoEncontrado == "ErrClienteNaoEncontrado"
ErrTransacaoDuplicada == "ErrTransacaoDuplicada"
\* The errors built with fmt.Errorf: none of them is a domain error value.
ErrOperacaoAtomica == "operacao atomica falhou"
ErrDebitarLimite == "erro ao debitar limite"
ErrJaExiste == "transacao ja existe"
ErrSalvar == "erro ao salvar transacao"
\* The error a failing event publisher returns.
ErrPublicar == "falha ao publicar evento"

NoCliente == [existe |-> FALSE]
NoItem == [existe |-> FALSE]
NoTransacao ==
    [ID |-> 0, ClienteID |-> "", Valor |-> 0, Status |-> "", Timestamp |-> 0,
     CorrelationID |-> 0]
NoRequisicao == [ClienteID |-> "", Valor |-> 0, CorrelationID |-> 0]
NoEvento ==
    [Evento |-> "", TransacaoID |-> 0, ClienteID |-> "", Valor |-> 0,
     Timestamp |-> 0, CorrelationID |-> 0]
NoTarefa == [via |-> "", evento |-> NoEvento, feita |-> FALSE, erro |-> Nil]

VARIABLES
    clientes,    \* the customer table: id -> row or NoCliente
    transacoes,  \* the transaction table (the log): id -> item or NoItem
    transacao,   \* the Transacao objects, by the call that created them
    proxID,      \* the next id uuid.New() gives
    pc,          \* where each call is
    ent,         \* the Transacao object each call was given (0: none)
    motivo,      \* the error a call is rejecting with
    retorno,     \* what a call returned ("" while it runs)
    updRes,      \* the outcome of a call's UpdateItem ("" before it)
    getRes,      \* the outcome of a call's follow-up GetCliente
    saveRes,     \* the outcome of a call's Save
    limiteVisto, \* the limite_atual a call's UpdateItem found (-1: none)
    novoLimite,  \* the limite_atual a call's UpdateItem returned (-1: none)
    tarefa,      \* the detached publish task of each call
    pedidos,     \* the requests each call has issued, in order
    requisicao,  \* the TransacaoRequest the handler decoded for each call
    cancelado,   \* whether the request context of each call is cancelled
    ajustes,     \* how many UpdateLimite and CreateCliente calls were made
    clientesInicial  \* the customer table as provisioned (never changes)

vars == <<clientes, transacoes, transacao, proxID, pc, ent, motivo, retorno,
          updRes, getRes, saveRes, limiteVisto, novoLimite, tarefa, pedidos,
          requisicao, cancelado, ajustes, clientesInicial>>

\* ------------------------------------------------------------ the entity
\* Mutant: every Transacao gets the same id.
NewTransacaoIDFixo(clienteID, valor, correlationID, id) ==
    [ID |-> 1, ClienteID |-> clienteID, Valor |-> valor,
     Status |-> StatusPendente, Timestamp |-> id,
     CorrelationID |-> correlationID]

\* id is what uuid.New() gives; time.Now() is read off the same counter.
NewTransacao(clienteID, valor, correlationID, id) ==
    [ID |-> id, ClienteID |-> clienteID, Valor |-> valor,
     Status |-> StatusPendente, Timestamp |-> id,
     CorrelationID |-> correlationID]

\* Mutant: the amount is not validated.
ValidaSoCliente(t) ==
    IF t.ClienteID = "" THEN ErrClienteInvalido ELSE Nil

\* Mutant: the customer id is checked before the amount.
ValidaClientePrimeiro(t) ==
    IF t.ClienteID = "" THEN ErrClienteInvalido
    ELSE IF t.Valor < 0 THEN ErrValorNegativo
    ELSE IF t.Valor = 0 THEN ErrValorZero
    ELSE Nil

Valida(t) ==
    IF t.Valor <= 0 /\ t.Valor < 0 THEN ErrValorNegativo
    ELSE IF t.Valor <= 0 /\ t.Valor = 0 THEN ErrValorZero
    ELSE IF t.ClienteID = "" THEN ErrClienteInvalido
    ELSE Nil

Aprovar(t) == [t EXCEPT !.Status = StatusAprovada]

\* Mutant: Rejeitar leaves the status as it is.
RejeitarSemStatus(t) == t

Rejeitar(t) == [t EXCEPT !.Status = StatusRejeitada]

\* Mutant: the event type does not look at the status.
ToEventoSemStatus(t) ==
    [Evento |-> "TRANSACAO_PROCESSADA",
     TransacaoID |-> t.ID, ClienteID |-> t.ClienteID, Valor |-> t.Valor,
     Timestamp |-> t.Timestamp, CorrelationID |-> t.CorrelationID]

ToEvento(t) ==
    [Evento |-> CASE t.Status = StatusAprovada -> EventoTransacaoAprovada
                  [] t.Status = StatusRejeitada -> EventoTransacaoRejeitada
                  [] OTHER -> "TRANSACAO_PROCESSADA",
     TransacaoID |-> t.ID, ClienteID |-> t.ClienteID, Valor |-> t.Valor,
     Timestamp |-> t.Timestamp, CorrelationID |-> t.CorrelationID]

\* int(transacao.Valor * 100): the conversion truncates toward zero.
ValorCentavos(valor) ==
    IF valor >= 0 THEN valor \div SubUnidades ELSE -((-valor) \div SubUnidades)

\* ------------------------------------------------------ the customer table
Item(clienteID) ==
    IF clienteID \in DOMAIN clientes THEN clientes[clienteID] ELSE NoCliente

\* Mutant: the condition checks only that the customer exists.
CondicaoDebitoSemSaldo(item, valor) == item.existe

\* Mutant: the condition demands a balance strictly above the amount.
CondicaoDebitoEstrita(item, valor) ==
    /\ item.existe
    /\ item.limite_atual > valor

\* ConditionExpression of DebitarLimiteAtomica.
CondicaoDebito(item, valor) ==
    /\ item.existe
    /\ item.limite_atual >= valor
    /\ (item.limite_atual - valor) >= 0

\* Mutant: the amount is added to the balance.
Creditado(item, valor) == [item EXCEPT !.limite_atual = item.limite_atual + valor]

\* Mutant: the debit is taken off the credit ceiling, not off the balance.
DebitadoDoTeto(item, valor) ==
    [item EXCEPT !.limite_atual = item.limite_credito - valor]

\* UpdateExpression of DebitarLimiteAtomica.
Debitado(item, valor) == [item EXCEPT !.limite_atual = item.limite_atual - valor]

\* Mutant: the comparison of the balance read with the amount is inverted.
ClassificarInvertida(getErr, item, valor) ==
    IF getErr # Nil
    THEN IF getErr = ErrClienteNaoEncontrado
         THEN ErrClienteNaoEncontrado
         ELSE ErrLimiteInsuficiente
    ELSE IF item.limite_atual > valor
         THEN ErrLimiteInsuficiente
         ELSE ErrOperacaoAtomica

\* Mutant: every failed follow-up read counts as an insufficient balance.
ClassificarSemCliente(getErr, item, valor) ==
    IF getErr # Nil
    THEN ErrLimiteInsuficiente
    ELSE IF item.limite_atual < valor
         THEN ErrLimiteInsuficiente
         ELSE ErrOperacaoAtomica

\* What DebitarLimiteAtomica returns after a rejected conditional write, from
\* the outcome of the follow-up GetCliente.
Classificar(getErr, item, valor) ==
    IF getErr # Nil
    THEN IF getErr = ErrClienteNaoEncontrado
         THEN ErrClienteNaoEncontrado
         ELSE ErrLimiteInsuficiente
    ELSE IF item.limite_atual < valor
         THEN ErrLimiteInsuficiente
         ELSE ErrOperacaoAtomica

\* ------------------------------------------------------------------- Init
Init ==
    /\ \E b1 \in 0..MaxLimite :
       \E r2 \in {NoCliente} \cup
                 {[existe |-> TRUE, limite_credito |-> MaxLimite, limite_atual |-> b] :
                     b \in {MaxLimite}} :
          clientes = [c \in Clientes |->
                        IF c = "c1"
                        THEN [existe |-> TRUE, limite_credito |-> MaxLimite,
                              limite_atual |-> b1]
                        ELSE r2]
    /\ clientesInicial = clientes
    /\ transacoes = [i \in Todas |-> NoItem]
    /\ transacao = [e \in Todas |-> NoTransacao]
    /\ proxID = 1
    /\ pc = [p \in Todas |-> "inativa"]
    /\ ent = [p \in Todas |-> 0]
    /\ motivo = [p \in Todas |-> Nil]
    /\ retorno = [p \in Todas |-> ""]
    /\ updRes = [p \in Todas |-> ""]
    /\ getRes = [p \in Todas |-> ""]
    /\ saveRes = [p \in Todas |-> ""]
    /\ limiteVisto = [p \in Todas |-> -1]
    /\ novoLimite = [p \in Todas |-> -1]
    /\ tarefa = [p \in Todas |-> NoTarefa]
    /\ pedidos = [p \in Todas |-> <<>>]
    /\ requisicao = [p \in Todas |-> NoRequisicao]
    /\ cancelado = [p \in Todas |-> FALSE]
    /\ ajustes = 0

\* ---------------------------------------------------------------- actions
\* Calls start in order: call p starts once the calls before it have.
PodeIniciar(p) ==
    /\ pc[p] = "inativa"
    /\ \A q \in Todas : q < p => pc[q] # "inativa"

\* The store requests that failed with a store error so far.
Falhas ==
    Cardinality({p \in Todas : updRes[p] = "erro"})
    + Cardinality({p \in Todas : getRes[p] = "erro"})
    + Cardinality({p \in Todas : saveRes[p] = ErrSalvar})

PodeFalhar == Falhas < MaxFalhas

\* Call p issues the request op to a store or to the event publisher.
Pedido(p, op) == pedidos' = [pedidos EXCEPT ![p] = Append(pedidos[p], op)]

\* Mutant: a validated call reads the customer before it debits.
ValidadoComLeitura(p, t) ==
    /\ pc' = [pc EXCEPT ![p] = IF Valida(t) # Nil THEN "rejeitar" ELSE "GetCliente"]
    /\ motivo' = IF Valida(t) # Nil THEN [motivo EXCEPT ![p] = Valida(t)] ELSE motivo

\* Mutant: the validation error is dropped and the debit goes ahead.
ValidadoSemRejeicao(p, t) ==
    /\ pc' = [pc EXCEPT ![p] = "processarLimite"]
    /\ motivo' = motivo

\* AutorizarTransacao up to its first store request: validarTransacao.
Validado(p, t) ==
    IF Valida(t) # Nil
    THEN /\ pc' = [pc EXCEPT ![p] = "rejeitar"]
         /\ motivo' = [motivo EXCEPT ![p] = Valida(t)]
    ELSE /\ pc' = [pc EXCEPT ![p] = "processarLimite"]
         /\ motivo' = motivo

\* Mutant: the error of processarLimite is ignored.
AposProcessarLimiteSemErro(err) == "aprovar"

\* Mutant: an insufficient balance makes the call debit again.
AposProcessarLimiteRepete(err) ==
    IF err = Nil THEN "aprovar"
    ELSE IF err = ErrLimiteInsuficiente THEN "processarLimite"
    ELSE "rejeitar"

\* AutorizarTransacao after processarLimite returned err: reject or approve.
AposProcessarLimite(err) == IF err # Nil THEN "rejeitar" ELSE "aprovar"

\* handlePostTransacoes: a new Transacao, handed to AutorizarTransacao. The
\* correlation id of the request of call p is p.
HandlePostTransacoes(p, clienteID, valor) ==
    /\ PodeIniciar(p)
    /\ transacao' = [transacao EXCEPT
                       ![p] = NewTransacao(clienteID, valor, p, proxID)]
    /\ proxID' = proxID + 1
    /\ ent' = [ent EXCEPT ![p] = p]
    /\ requisicao' = [requisicao EXCEPT
                        ![p] = [ClienteID |-> clienteID, Valor |-> valor,
                                CorrelationID |-> p]]
    /\ Validado(p, NewTransacao(clienteID, valor, p, proxID))
    /\ UNCHANGED <<clientes, transacoes, retorno, updRes, getRes, saveRes,
                   tarefa, limiteVisto, novoLimite, clientesInicial, pedidos,
                   ajustes, cancelado>>

\* AutorizarTransacao called again with a Transacao object that already exists
\* (the same object, hence the same transaction id, submitted once more).
AutorizarTransacao(p, e) ==
    /\ PodeIniciar(p)
    /\ transacao[e] # NoTransacao
    /\ ent' = [ent EXCEPT ![p] = e]
    /\ Validado(p, transacao[e])
    /\ UNCHANGED <<clientes, transacoes, transacao, proxID, retorno, updRes,
                   getRes, saveRes, tarefa, limiteVisto, novoLimite,
                   clientesInicial, pedidos, ajustes, requisicao, cancelado>>

\* processarLimite -> DebitarLimiteAtomica: the conditional UpdateItem.
DebitarLimiteAtomica(p) ==
    LET t == transacao[ent[p]]
        valorCentavos == ValorCentavos(t.Valor)
        item == Item(t.ClienteID)
    IN  /\ pc[p] = "processarLimite"
        /\ ~cancelado[p]
        /\ limiteVisto' = [limiteVisto EXCEPT
                              ![p] = IF item.existe THEN item.limite_atual ELSE -1]
        /\ IF CondicaoDebito(item, valorCentavos)
           THEN /\ clientes' = [clientes EXCEPT
                                  ![t.ClienteID] = Debitado(item, valorCentavos)]
                /\ novoLimite' = [novoLimite EXCEPT
                                    ![p] = Debitado(item, valorCentavos).limite_atual]
                /\ updRes' = [updRes EXCEPT ![p] = "ok"]
                /\ pc' = [pc EXCEPT ![p] = AposProcessarLimite(Nil)]
           ELSE /\ clientes' = clientes
                /\ novoLimite' = novoLimite
                /\ updRes' = [updRes EXCEPT ![p] = "ConditionalCheckFailed"]
                /\ pc' = [pc EXCEPT ![p] = "GetCliente"]
        /\ Pedido(p, "UpdateItem")
        /\ UNCHANGED <<transacoes, transacao, proxID, ent, motivo, retorno,
                       getRes, saveRes, tarefa, clientesInicial, ajustes,
                       requisicao, cancelado>>

\* The UpdateItem fails with an error that is no ConditionalCheckFailedException
\* (the store is unavailable): nothing is written.
DebitarLimiteAtomicaErro(p) ==
    /\ pc[p] = "processarLimite"
    /\ (PodeFalhar \/ cancelado[p])
    /\ updRes' = [updRes EXCEPT ![p] = "erro"]
    /\ motivo' = [motivo EXCEPT ![p] = ErrDebitarLimite]
    /\ pc' = [pc EXCEPT ![p] = AposProcessarLimite(ErrDebitarLimite)]
    /\ Pedido(p, "UpdateItem")
    /\ UNCHANGED <<clientes, transacoes, transacao, proxID, ent, retorno,
                   getRes, saveRes, tarefa, limiteVisto, novoLimite,
                   clientesInicial, ajustes, requisicao, cancelado>>

\* The follow-up GetCliente of DebitarLimiteAtomica and its classification.
GetCliente(p) ==
    LET t == transacao[ent[p]]
        item == Item(t.ClienteID)
        getErr == IF item.existe THEN Nil ELSE ErrClienteNaoEncontrado
    IN  /\ pc[p] = "GetCliente"
        /\ ~cancelado[p]
        /\ getRes' = [getRes EXCEPT ![p] = getErr]
        /\ motivo' = [motivo EXCEPT
                        ![p] = Classificar(getErr, item, ValorCentavos(t.Valor))]
        /\ pc' = [pc EXCEPT
                    ![p] = AposProcessarLimite(
                              Classificar(getErr, item, ValorCentavos(t.Valor)))]
        /\ Pedido(p, "GetItem")
        /\ UNCHANGED <<clientes, transacoes, transacao, proxID, ent, retorno,
                       updRes, saveRes, tarefa, limiteVisto, novoLimite,
                       clientesInicial, ajustes, requisicao, cancelado>>

\* The follow-up GetCliente fails (GetItem error).
GetClienteErro(p) ==
    LET t == transacao[ent[p]]
    IN  /\ pc[p] = "GetCliente"
        /\ (PodeFalhar \/ cancelado[p])
        /\ getRes' = [getRes EXCEPT ![p] = "erro"]
        /\ motivo' = [motivo EXCEPT
                        ![p] = Classificar("erro", NoCliente, ValorCentavos(t.Valor))]
        /\ pc' = [pc EXCEPT
                    ![p] = AposProcessarLimite(
                              Classificar("erro", NoCliente, ValorCentavos(t.Valor)))]
        /\ Pedido(p, "GetItem")
        /\ UNCHANGED <<clientes, transacoes, transacao, proxID, ent, retorno,
                       updRes, saveRes, tarefa, limiteVisto, novoLimite,
                       clientesInicial, ajustes, requisicao, cancelado>>

\* ---------------------------------------------------- the transaction table
ItemDe(t) ==
    [existe |-> TRUE, id |-> t.ID, cliente_id |-> t.ClienteID, valor |-> t.Valor,
     status |-> t.Status, timestamp |-> t.Timestamp,
     correlation_id |-> t.CorrelationID]

\* TransacaoRepository.Save: PutItem under attribute_not_exists(id).
SaveErro(t) == IF transacoes[t.ID].existe THEN ErrJaExiste ELSE Nil

\* Mutant: the PutItem ignores the key and writes the first item.
SaveTabelaSemChave(t) == [transacoes EXCEPT ![1] = ItemDe(t)]

SaveTabela(t) ==
    IF transacoes[t.ID].existe THEN transacoes
    ELSE [transacoes EXCEPT ![t.ID] = ItemDe(t)]

\* aprovarTransacao: transacao.Aprovar().
AprovarTransacao(p) ==
    /\ pc[p] = "aprovar"
    /\ transacao' = [transacao EXCEPT ![ent[p]] = Aprovar(transacao[ent[p]])]
    /\ pc' = [pc EXCEPT ![p] = "salvarAprovada"]
    /\ UNCHANGED <<clientes, transacoes, proxID, ent, motivo, retorno, updRes,
                   getRes, saveRes, tarefa, limiteVisto, novoLimite,
                   clientesInicial, pedidos, ajustes, requisicao, cancelado>>

\* Mutant: the approval event is dispatched whatever Save returned.
AprovadaSempreDespacha(p, err) ==
    /\ saveRes' = [saveRes EXCEPT ![p] = err]
    /\ retorno' = [retorno EXCEPT ![p] = err]
    /\ tarefa' = [tarefa EXCEPT ![p] = [via |-> "PublishTransacaoAprovada",
                                        evento |-> NoEvento, feita |-> FALSE,
                                        erro |-> Nil]]
    /\ pc' = [pc EXCEPT ![p] = "retornou"]

\* Mutant: aprovarTransacao tries Save again when it fails.
AprovadaComRetry(p, err) ==
    /\ saveRes' = [saveRes EXCEPT ![p] = err]
    /\ retorno' = IF err = Nil THEN [retorno EXCEPT ![p] = err] ELSE retorno
    /\ tarefa' = IF err = Nil
                 THEN [tarefa EXCEPT ![p] = [via |-> "PublishTransacaoAprovada",
                                             evento |-> NoEvento, feita |-> FALSE,
                                             erro |-> Nil]]
                 ELSE tarefa
    /\ pc' = [pc EXCEPT ![p] = IF err = Nil THEN "retornou" ELSE "salvarAprovada"]

\* What aprovarTransacao does with the outcome err of Save.
Aprovada(p, err) ==
    /\ saveRes' = [saveRes EXCEPT ![p] = err]
    /\ retorno' = [retorno EXCEPT ![p] = err]
    /\ tarefa' = IF err = Nil
                 THEN [tarefa EXCEPT ![p] = [via |-> "PublishTransacaoAprovada",
                                             evento |-> NoEvento, feita |-> FALSE,
                                             erro |-> Nil]]
                 ELSE tarefa
    /\ pc' = [pc EXCEPT ![p] = "retornou"]

\* aprovarTransacao from Save on: the PutItem, the dispatch, the return.
SalvarAprovada(p) ==
    LET t == transacao[ent[p]]
    IN  /\ pc[p] = "salvarAprovada"
        /\ ~cancelado[p]
        /\ transacoes' = SaveTabela(t)
        /\ Aprovada(p, SaveErro(t))
        /\ Pedido(p, "PutItem")
        /\ UNCHANGED <<clientes, transacao, proxID, ent, motivo, updRes,
                       getRes, limiteVisto, novoLimite, clientesInicial,
                       ajustes, requisicao, cancelado>>

\* The PutItem of an approved Transacao fails (store error): nothing is written.
SalvarAprovadaErro(p) ==
    /\ pc[p] = "salvarAprovada"
    /\ (PodeFalhar \/ cancelado[p])
    /\ Aprovada(p, ErrSalvar)
    /\ Pedido(p, "PutItem")
    /\ UNCHANGED <<clientes, transacoes, transacao, proxID, ent, motivo,
                   updRes, getRes, limiteVisto, novoLimite, clientesInicial,
                   ajustes, requisicao, cancelado>>

\* rejeitarTransacao: transacao.Rejeitar().
RejeitarTransacao(p) ==
    /\ pc[p] = "rejeitar"
    /\ transacao' = [transacao EXCEPT ![ent[p]] = Rejeitar(transacao[ent[p]])]
    /\ pc' = [pc EXCEPT ![p] = "salvarRejeitada"]
    /\ UNCHANGED <<clientes, transacoes, proxID, ent, motivo, retorno, updRes,
                   getRes, saveRes, tarefa, limiteVisto, novoLimite,
                   clientesInicial, pedidos, ajustes, requisicao, cancelado>>

\* Mutant: rejeitarTransacao returns the error of Save when Save fails.
RejeitadaRetornaSave(p, err) ==
    /\ saveRes' = [saveRes EXCEPT ![p] = err]
    /\ retorno' = [retorno EXCEPT ![p] = IF err # Nil THEN err ELSE motivo[p]]
    /\ tarefa' = [tarefa EXCEPT ![p] = [via |-> "PublishTransacaoRejeitada",
                                        evento |-> NoEvento, feita |-> FALSE,
                                        erro |-> Nil]]
    /\ pc' = [pc EXCEPT ![p] = "retornou"]

\* Mutant: rejeitarTransacao publishes before it returns.
RejeitadaSincrona(p, err) ==
    /\ saveRes' = [saveRes EXCEPT ![p] = err]
    /\ retorno' = retorno
    /\ tarefa' = [tarefa EXCEPT ![p] = [via |-> "PublishTransacaoRejeitada",
                                        evento |-> NoEvento, feita |-> FALSE,
                                        erro |-> Nil]]
    /\ pc' = [pc EXCEPT ![p] = "publicando"]

\* What rejeitarTransacao does with the outcome err of Save.
Rejeitada(p, err) ==
    /\ saveRes' = [saveRes EXCEPT ![p] = err]
    /\ retorno' = [retorno EXCEPT ![p] = motivo[p]]
    /\ tarefa' = [tarefa EXCEPT ![p] = [via |-> "PublishTransacaoRejeitada",
                                        evento |-> NoEvento, feita |-> FALSE,
                                        erro |-> Nil]]
    /\ pc' = [pc EXCEPT ![p] = "retornou"]

\* rejeitarTransacao from Save on: the PutItem, the dispatch, the return.
SalvarRejeitada(p) ==
    LET t == transacao[ent[p]]
    IN  /\ pc[p] = "salvarRejeitada"
        /\ ~cancelado[p]
        /\ transacoes' = SaveTabela(t)
        /\ Rejeitada(p, SaveErro(t))
        /\ Pedido(p, "PutItem")
        /\ UNCHANGED <<clientes, transacao, proxID, ent, motivo, updRes,
                       getRes, limiteVisto, novoLimite, clientesInicial,
                       ajustes, requisicao, cancelado>>

\* The PutItem of a rejected Transacao fails (store error): nothing is written.
SalvarRejeitadaErro(p) ==
    /\ pc[p] = "salvarRejeitada"
    /\ (PodeFalhar \/ cancelado[p])
    /\ Rejeitada(p, ErrSalvar)
    /\ Pedido(p, "PutItem")
    /\ UNCHANGED <<clientes, transacoes, transacao, proxID, ent, motivo,
                   updRes, getRes, limiteVisto, novoLimite, clientesInicial,
                   ajustes, requisicao, cancelado>>

\* Mutant: a failed publish becomes the result of the call.
AposPublicarComErro(p, err) ==
    retorno' = IF err # Nil THEN [retorno EXCEPT ![p] = err] ELSE retorno

\* publicarEvento / publicarEventoRejeicao once the publisher returned err: a
\* failure is logged and counted, and nothing else is done with it.
AposPublicar(p, err) == retorno' = retorno

\* Mutant: the detached task is given the context of the request.
TarefaCanceladaComPedido(p) == cancelado[p]

\* Whether the context of the detached task of call p is cancelled: the task
\* is started with context.Background(), which never is.
TarefaCancelada(p) == FALSE

\* Mutant: a publish that failed is attempted once more.
PublicarComRetry(p, err) ==
    /\ tarefa[p].via # ""
    /\ ~tarefa[p].feita
    /\ ~TarefaCancelada(p)
    /\ tarefa' = [tarefa EXCEPT
                    ![p] = [via |-> tarefa[p].via,
                            evento |-> ToEvento(transacao[ent[p]]),
                            feita |-> (err = Nil \/ "Publish" \in
                                          {pedidos[p][i] : i \in DOMAIN pedidos[p]}),
                            erro |-> err]]
    /\ Pedido(p, "Publish")
    /\ AposPublicar(p, err)
    /\ UNCHANGED <<clientes, transacoes, transacao, proxID, pc, ent, motivo,
                   updRes, getRes, saveRes, limiteVisto, novoLimite,
                   clientesInicial, ajustes, requisicao, cancelado>>

\* The detached task: publicarEvento / publicarEventoRejeicao builds the event
\* from the Transacao object as it is when the task runs, and publishes it;
\* the publisher returns err.
Publicar(p, err) ==
    /\ tarefa[p].via # ""
    /\ ~tarefa[p].feita
    /\ ~TarefaCancelada(p)
    /\ tarefa' = [tarefa EXCEPT ![p] = [via |-> tarefa[p].via,
                                        evento |-> ToEvento(transacao[ent[p]]),
                                        feita |-> TRUE, erro |-> err]]
    /\ Pedido(p, "Publish")
    /\ AposPublicar(p, err)
    /\ UNCHANGED <<clientes, transacoes, transacao, proxID, pc, ent, motivo,
                   updRes, getRes, saveRes, limiteVisto, novoLimite,
                   clientesInicial, ajustes, requisicao, cancelado>>

\* The event is published.
PublicarEvento(p) == Publicar(p, Nil)

\* The event publisher fails.
PublicarEventoErro(p) == Publicar(p, ErrPublicar)

\* The steps of a call once it has started.
Passo(p) ==
    \/ DebitarLimiteAtomica(p)
    \/ GetCliente(p)
    \/ AprovarTransacao(p)
    \/ SalvarAprovada(p)
    \/ RejeitarTransacao(p)
    \/ SalvarRejeitada(p)
    \/ PublicarEvento(p)

\* A store request of a call fails with a store error.
Falha(p) ==
    \/ DebitarLimiteAtomicaErro(p)
    \/ GetClienteErro(p)
    \/ SalvarAprovadaErro(p)
    \/ SalvarRejeitadaErro(p)

\* Any requests, any interleaving, store requests that may fail.
Next ==
    \E p \in Chamadas :
        \/ \E c \in ClienteIDs, v \in Valores : HandlePostTransacoes(p, c, v)
        \/ \E e \in Chamadas : AutorizarTransacao(p, e)
        \/ Passo(p)
        \/ Falha(p)
        \/ PublicarEventoErro(p)

Spec == Init /\ [][Next]_vars

\* A step of call p that needs no store, or the answer of a store to the
\* request call p is waiting on.
Resposta(p) ==
    \/ DebitarLimiteAtomica(p)
    \/ GetCliente(p)
    \/ AprovarTransacao(p)
    \/ SalvarAprovada(p)
    \/ RejeitarTransacao(p)
    \/ SalvarRejeitada(p)
    \/ Falha(p)

\* Every store request is answered, and the goroutine of a dispatched publish
\* is scheduled and its publish call returns.
Justica ==
    \A p \in Chamadas :
        /\ WF_vars(Resposta(p))
        /\ WF_vars(PublicarEvento(p) \/ PublicarEventoErro(p))

SpecJusta == Init /\ [][Next]_vars /\ Justica

\* Concurrent requests of one amount against customer c1, each with a
\* Transacao of its own, the stores answering every request.
NextConcorrente ==
    \E p \in Concorrentes :
        \/ \E v \in Valores :
              /\ v > 0
              /\ \A q \in Concorrentes : ent[q] # 0 => transacao[ent[q]].Valor = v
              /\ HandlePostTransacoes(p, "c1", v)
        \/ Passo(p)

SpecConcorrente == Init /\ [][NextConcorrente]_vars

\* The request context of call p is cancelled (the caller went away or the
\* deadline of the invocation passed) before the publish of the call ran.
Cancelar(p) ==
    /\ pc[p] # "inativa"
    /\ ~cancelado[p]
    /\ ~tarefa[p].feita
    /\ cancelado' = [cancelado EXCEPT ![p] = TRUE]
    /\ UNCHANGED <<clientes, transacoes, transacao, proxID, pc, ent, motivo,
                   retorno, updRes, getRes, saveRes, limiteVisto, novoLimite,
                   tarefa, pedidos, requisicao, ajustes, clientesInicial>>

\* Valid requests whose context may be cancelled at any point: the store
\* requests made with a cancelled context fail.
NextCancelamento ==
    \E p \in Chamadas :
        \/ \E c \in Clientes, v \in Valores :
              v > 0 /\ HandlePostTransacoes(p, c, v)
        \/ Passo(p)
        \/ Cancelar(p)
        \/ cancelado[p] /\ Falha(p)

SpecCancelamento == Init /\ [][NextCancelamento]_vars

\* NewTransacao called on its own, as the tests of the domain package call
\* it: any customer id, amount and correlation id, also the same twice.
NovaTransacao(p, clienteID, valor, correlationID) ==
    /\ PodeIniciar(p)
    /\ transacao' = [transacao EXCEPT
                       ![p] = NewTransacao(clienteID, valor, correlationID,
                                           proxID)]
    /\ proxID' = proxID + 1
    /\ ent' = [ent EXCEPT ![p] = p]
    /\ requisicao' = [requisicao EXCEPT
                        ![p] = [ClienteID |-> clienteID, Valor |-> valor,
                                CorrelationID |-> correlationID]]
    /\ pc' = [pc EXCEPT ![p] = "criada"]
    /\ UNCHANGED <<clientes, transacoes, motivo, retorno, updRes, getRes,
                   saveRes, tarefa, limiteVisto, novoLimite, clientesInicial,
                   pedidos, ajustes, cancelado>>

NextNovas ==
    \E p \in Chamadas, c \in ClienteIDs, v \in Valores, k \in Chamadas :
        NovaTransacao(p, c, v, k)

SpecNovas == Init /\ [][NextNovas]_vars

\* LambdaHandler.categorizeError: the error code of the response for err.
categorizeError(err) ==
    CASE err = ErrLimiteInsuficiente -> "insufficient_limit"
      [] err = ErrClienteNaoEncontrado -> "client_not_found"
      [] err = ErrValorNegativo \/ err = ErrValorZero -> "invalid_amount"
      [] err = ErrClienteInvalido -> "invalid_client"
      [] OTHER -> "internal_error"

\* LimiteRepository.UpdateLimite: SET limite_atual under attribute_exists(id).
UpdateLimite(clienteID, novo) ==
    /\ ajustes < MaxAjustes
    /\ ajustes' = ajustes + 1
    /\ clientes' = IF clientes[clienteID].existe
                   THEN [clientes EXCEPT ![clienteID].limite_atual = novo]
                   ELSE clientes
    /\ UNCHANGED <<transacoes, transacao, proxID, pc, ent, motivo, retorno,
                   updRes, getRes, saveRes, limiteVisto, novoLimite, tarefa,
                   pedidos, clientesInicial, requisicao, cancelado>>

\* LimiteRepository.CreateCliente: PutItem under attribute_not_exists(id).
CreateCliente(clienteID, limiteAtual) ==
    /\ ajustes < MaxAjustes
    /\ ajustes' = ajustes + 1
    /\ clientes' = IF clientes[clienteID].existe
                   THEN clientes
                   ELSE [clientes EXCEPT
                           ![clienteID] = [existe |-> TRUE,
                                           limite_credito |-> MaxLimite,
                                           limite_atual |-> limiteAtual]]
    /\ UNCHANGED <<transacoes, transacao, proxID, pc, ent, motivo, retorno,
                   updRes, getRes, saveRes, limiteVisto, novoLimite, tarefa,
                   pedidos, clientesInicial, requisicao, cancelado>>

\* Valid requests, the stores answering every request, while the customer
\* table is also written through UpdateLimite and CreateCliente.
NextAjustes ==
    \/ \E p \in Chamadas :
          \/ \E c \in Clientes, v \in Valores :
                v > 0 /\ HandlePostTransacoes(p, c, v)
          \/ Passo(p)
    \/ \E c \in Clientes, n \in -1..MaxLimite + 1 :
          \/ UpdateLimite(c, n)
          \/ CreateCliente(c, n)

SpecAjustes == Init /\ [][NextAjustes]_vars

\* ------------------------------------------------------------ properties
\* The Transacao object of a call, and the centavos the call debits.
T(p) == transacao[ent[p]]
Centavos(p) == ValorCentavos(T(p).Valor)
Iniciada(p) == ent[p] # 0
Retornou(p) == pc[p] = "retornou"
\* The calls whose conditional write committed, by customer and by id.
Debitos(c) == {p \in Todas : Iniciada(p) /\ updRes[p] = "ok" /\ T(p).ClienteID = c}
DebitosDoID(id) == {p \in Todas : Iniciada(p) /\ updRes[p] = "ok" /\ T(p).ID = id}

RECURSIVE Soma(_)
Soma(ps) ==
    IF ps = {} THEN 0
    ELSE LET p == CHOOSE q \in ps : TRUE IN Centavos(p) + Soma(ps \ {p})

\* C1: every customer's available balance stays within 0 and the credit
\* ceiling, under any interleaving of calls, any inputs and any store errors.
C1_LimiteDentroDoTeto ==
    \A c \in Clientes :
        clientes[c].existe =>
            /\ 0 <= clientes[c].limite_atual
            /\ clientes[c].limite_atual <= clientes[c].limite_credito

\* Two calls debited the same customer and exhausted its balance.
C1_Witness ==
    \E c \in Clientes :
        /\ clientes[c].existe
        /\ clientes[c].limite_atual = 0
        /\ Cardinality({p \in Debitos(c) : Centavos(p) > 0}) >= 2

\* No call is running.
Quiescente == \A p \in Todas : pc[p] \in {"inativa", "retornou"}
Iniciadas == {p \in Todas : Iniciada(p)}
Aprovadas == {p \in Iniciadas : retorno[p] = Nil}

\* C2: N concurrent calls with distinct transaction ids debit customer c1,
\* whose balance is B, by the same amount A > 0, and N > B \div A: once all
\* have returned, exactly B \div A of them are approved, every other one is
\* rejected with ErrLimiteInsuficiente and the balance is B - A * (B \div A).
C2_ExatamenteOsQueCabem ==
    LET B == clientesInicial["c1"].limite_atual
        A == Centavos(1)
        N == Cardinality(Iniciadas)
    IN  (Quiescente /\ Iniciada(1) /\ A > 0 /\ N > B \div A) =>
            /\ Cardinality(Aprovadas) = B \div A
            /\ \A p \in Aprovadas : T(p).Status = StatusAprovada
            /\ \A p \in Iniciadas \ Aprovadas : retorno[p] = ErrLimiteInsuficiente
            /\ clientes["c1"].limite_atual = B - A * (B \div A)

\* Three calls of one centavo each against a balance of two have returned.
C2_Witness ==
    /\ Quiescente
    /\ Cardinality(Iniciadas) = 3
    /\ Centavos(1) = 1
    /\ clientesInicial["c1"].limite_atual = 2
    /\ Cardinality(Aprovadas) = 2

\* C3: one transaction id is debited at most once, however often the
\* Transacao is submitted.
C3_UmDebitoPorID ==
    \A id \in Todas : Cardinality({p \in DebitosDoID(id) : Centavos(p) > 0}) <= 1

\* C4: a call returns nil (approved) only if its own conditional write
\* committed, and the committed writes are exactly what the customer table
\* lost: no approval without a debit of that call's amount.
C4_AprovadaSoComDebito ==
    /\ \A p \in Todas : retorno[p] = Nil => updRes[p] = "ok"
    /\ \A c \in Clientes :
          clientes[c].existe =>
              clientesInicial[c].limite_atual - clientes[c].limite_atual
                  = Soma(Debitos(c))

\* A call that debits at least one centavo has returned nil.
C4_Witness ==
    \E p \in Todas : retorno[p] = Nil /\ Centavos(p) > 0 /\ updRes[p] = "ok"

\* A valid request: what may enter the debit phase.
ValidaParaDebito(t) == t.Valor > 0 /\ t.ClienteID # ""
\* The customer of call p had a row when the table was provisioned.
ClienteExiste(p) ==
    /\ T(p).ClienteID \in Clientes
    /\ clientesInicial[T(p).ClienteID].existe
Saldo(p) == clientes[T(p).ClienteID].limite_atual

\* What the customer table lost is what the committed writes took.
Conservacao ==
    \A c \in Clientes :
        clientes[c].existe =>
            clientesInicial[c].limite_atual - clientes[c].limite_atual
                = Soma(Debitos(c))
\* Call p has returned and no other call was ever made.
Sozinha(p) == Retornou(p) /\ \A q \in Todas \ {p} : pc[q] = "inativa"
\* The UpdateItem of call p was answered by the store.
Respondido(p) == updRes[p] \notin {"", "erro"}

\* C5: a valid call whose amount a is within the balance B is approved and
\* leaves B - a: the conditional write that finds a <= B commits and leaves
\* exactly B - a; a call whose write committed and whose Save succeeded
\* returns nil; and a call that ran with no other call, its store requests
\* answered, returns nil and leaves the provisioned balance minus a.
C5_DebitoExato ==
    \A p \in Iniciadas :
        /\ (Respondido(p) /\ ClienteExiste(p) /\ Centavos(p) <= limiteVisto[p])
              => /\ updRes[p] = "ok"
                 /\ novoLimite[p] = limiteVisto[p] - Centavos(p)
        /\ (Retornou(p) /\ updRes[p] = "ok" /\ saveRes[p] = Nil) => retorno[p] = Nil
        /\ (/\ Sozinha(p)
            /\ ValidaParaDebito(T(p))
            /\ ClienteExiste(p)
            /\ Centavos(p) <= clientesInicial[T(p).ClienteID].limite_atual
            /\ updRes[p] # "erro"
            /\ saveRes[p] = Nil)
              => /\ retorno[p] = Nil
                 /\ T(p).Status = StatusAprovada
                 /\ Saldo(p) = clientesInicial[T(p).ClienteID].limite_atual
                                  - Centavos(p)

\* A call of two centavos, alone, was approved against a balance of three.
C5_Witness ==
    \E p \in Iniciadas :
        /\ Sozinha(p)
        /\ retorno[p] = Nil
        /\ Centavos(p) = 2
        /\ clientesInicial[T(p).ClienteID].limite_atual = 3
        /\ Saldo(p) = 1

\* C6: a valid call whose amount a exceeds the balance B of an existing
\* customer is rejected with ErrLimiteInsuficiente and the balance stays: the
\* conditional write that finds a > B is rejected and writes nothing, the
\* call then returns ErrLimiteInsuficiente, and a call that ran with no other
\* call leaves the customer table as provisioned.
C6_LimiteInsuficiente ==
    /\ Conservacao
    /\ \A p \in Iniciadas :
          (ValidaParaDebito(T(p)) /\ ClienteExiste(p)) =>
              /\ (Respondido(p) /\ Centavos(p) > limiteVisto[p])
                    => /\ updRes[p] = "ConditionalCheckFailed"
                       /\ novoLimite[p] = -1
                       /\ Retornou(p) => retorno[p] = ErrLimiteInsuficiente
              /\ (/\ Sozinha(p)
                  /\ updRes[p] # "erro"
                  /\ Centavos(p) > clientesInicial[T(p).ClienteID].limite_atual)
                    => /\ retorno[p] = ErrLimiteInsuficiente
                       /\ T(p).Status = StatusRejeitada
                       /\ clientes = clientesInicial

\* A call of two centavos was rejected against a balance of one, which stays.
C6_Witness ==
    \E p \in Iniciadas :
        /\ Retornou(p)
        /\ ClienteExiste(p)
        /\ Centavos(p) = 2
        /\ limiteVisto[p] = 1
        /\ retorno[p] = ErrLimiteInsuficiente
        /\ Saldo(p) = 1

\* C7: a valid call for a customer id with no row is rejected with
\* ErrClienteNaoEncontrado (its store requests answered), no row is ever
\* created for that id, a call that ran with no other call leaves the
\* customer table as provisioned, and the log item of its transaction, if
\* any, has status REJEITADA.
C7_ClienteNaoEncontrado ==
    /\ \A c \in Clientes : ~clientesInicial[c].existe => clientes[c] = NoCliente
    /\ \A p \in Iniciadas :
          (ValidaParaDebito(T(p)) /\ ~ClienteExiste(p)) =>
              /\ transacoes[T(p).ID].existe
                    => transacoes[T(p).ID].status = StatusRejeitada
              /\ (Retornou(p) /\ updRes[p] # "erro" /\ getRes[p] # "erro")
                    => retorno[p] = ErrClienteNaoEncontrado
              /\ Sozinha(p) => clientes = clientesInicial

\* A valid call for the unknown customer returned and its item is in the log.
C7_Witness ==
    \E p \in Iniciadas :
        /\ Retornou(p)
        /\ ValidaParaDebito(T(p))
        /\ ~ClienteExiste(p)
        /\ retorno[p] = ErrClienteNaoEncontrado
        /\ transacoes[T(p).ID].existe

\* What validarTransacao returned to call p: the call went straight to the
\* rejection (no UpdateItem was issued) with this error, or it went on.
ErroDeValidacao(p) ==
    IF updRes[p] = "" /\ pc[p] # "processarLimite" THEN motivo[p] ELSE Nil

\* C8: Valida reports one result, chosen in a fixed order: a negative amount
\* gives ErrValorNegativo and a zero amount ErrValorZero whatever the
\* customer id; otherwise an empty customer id gives ErrClienteInvalido;
\* otherwise no error. The validation leaves the Transacao as it was made.
C8_ValidaEmOrdem ==
    \A p \in Iniciadas :
        /\ T(p).Valor < 0 => ErroDeValidacao(p) = ErrValorNegativo
        /\ T(p).Valor = 0 => ErroDeValidacao(p) = ErrValorZero
        /\ (T(p).Valor > 0 /\ T(p).ClienteID = "")
              => ErroDeValidacao(p) = ErrClienteInvalido
        /\ (T(p).Valor > 0 /\ T(p).ClienteID # "") => ErroDeValidacao(p) = Nil
        /\ (/\ pc[p] \in {"processarLimite", "rejeitar"}
            /\ \A q \in Iniciadas \ {p} : ent[q] # ent[p])
              => T(p) = NewTransacao(T(p).ClienteID, T(p).Valor,
                                     T(p).CorrelationID, T(p).ID)

\* A request with a negative amount and an empty customer id was validated.
C8_Witness ==
    \E p \in Iniciadas :
        /\ T(p).Valor < 0
        /\ T(p).ClienteID = ""
        /\ ErroDeValidacao(p) = ErrValorNegativo

\* C9: a call whose Transacao fails validation (amount <= 0 or empty customer
\* id) issues no UpdateItem and no GetCliente, goes to the rejection only,
\* marks the object REJEITADA and returns the validation error; a call is in
\* the debit phase only with amount > 0 and a non-empty customer id.
C9_SemDebitoSeInvalida ==
    \A p \in Iniciadas :
        /\ ~ValidaParaDebito(T(p)) =>
              /\ updRes[p] = ""
              /\ getRes[p] = ""
              /\ pc[p] \in {"rejeitar", "salvarRejeitada", "retornou"}
              /\ pc[p] \in {"salvarRejeitada", "retornou"}
                    => T(p).Status = StatusRejeitada
              /\ Retornou(p) =>
                    retorno[p] = IF T(p).Valor < 0 THEN ErrValorNegativo
                                 ELSE IF T(p).Valor = 0 THEN ErrValorZero
                                 ELSE ErrClienteInvalido
        /\ (\/ pc[p] \in {"processarLimite", "GetCliente", "aprovar", "salvarAprovada"}
            \/ updRes[p] # "")
              => ValidaParaDebito(T(p))

\* A call with an invalid Transacao has returned while another call debited.
C9_Witness ==
    \E p \in Iniciadas :
        /\ ~ValidaParaDebito(T(p))
        /\ Retornou(p)
        /\ T(p).Status = StatusRejeitada
        /\ \E q \in Iniciadas : updRes[q] = "ok"

\* C10: a terminal status (APROVADA or REJEITADA) of a Transacao object
\* never changes afterwards, whatever is done with the object.
C10_StatusTerminalFinal ==
    [][\A e \in Todas :
          transacao[e].Status \in {StatusAprovada, StatusRejeitada}
              => transacao'[e].Status = transacao[e].Status]_vars

\* No other call was given the Transacao object of call p.
SoSua(p) == \A q \in Iniciadas \ {p} : ent[q] # ent[p]
\* Call p went through rejeitarTransacao.
PelaRejeicao(p) == motivo[p] # Nil

\* C11: a call that returned with an outcome (nil after the approval, or the
\* reason of the rejection) has left a log item for its transaction id.
C11_UmRegistroPorChamada ==
    \A p \in Iniciadas :
        (Retornou(p) /\ (retorno[p] = Nil \/ PelaRejeicao(p)))
            => transacoes[T(p).ID].existe

\* C12: a call whose debit committed and whose Save found the transaction id
\* already in the log returns nil: the duplicate counts as success.
C12_DuplicadaComoSucesso ==
    \A p \in Iniciadas :
        (Retornou(p) /\ updRes[p] = "ok" /\ saveRes[p] = ErrJaExiste)
            => retorno[p] = Nil

\* C13: a Save the store answered, on an id that has a log item, returns
\* ErrTransacaoDuplicada and leaves the log as it is; on an id that has none
\* it returns nil and inserts the item.
C13_SaveDuplicada ==
    [][\A p \in Todas :
          (saveRes[p] = "" /\ saveRes'[p] \notin {"", ErrSalvar}) =>
              IF transacoes[T(p).ID].existe
              THEN /\ saveRes'[p] = ErrTransacaoDuplicada
                   /\ transacoes' = transacoes
              ELSE /\ saveRes'[p] = Nil
                   /\ transacoes' = [transacoes EXCEPT ![T(p).ID] = ItemDe(T(p))]]_vars

\* C14: a call whose UpdateItem failed with a store error returns a system
\* error, its transaction id gets no log item, and the customer table has
\* lost nothing to it.
C14_SemRegistroSeIndisponivel ==
    /\ Conservacao
    /\ \A p \in Iniciadas :
          (updRes[p] = "erro" /\ SoSua(p)) =>
              /\ ~transacoes[T(p).ID].existe
              /\ Retornou(p) => categorizeError(retorno[p]) = "internal_error"

\* C15: a call that returned a system error (one categorizeError maps to
\* internal_error) has not debited: its conditional write did not commit.
C15_ErroDeSistemaSemDebito ==
    \A p \in Iniciadas :
        (/\ Retornou(p)
         /\ retorno[p] # Nil
         /\ categorizeError(retorno[p]) = "internal_error")
            => updRes[p] # "ok"

\* C16: a call whose UpdateItem or follow-up GetItem failed with a store
\* error returns a system error, never a business rejection.
C16_FalhaComoErroDeSistema ==
    \A p \in Iniciadas :
        (Retornou(p) /\ (updRes[p] = "erro" \/ getRes[p] = "erro"))
            => categorizeError(retorno[p]) = "internal_error"

\* C17: after a rejected conditional write the follow-up read decides: no row
\* gives ErrClienteNaoEncontrado, a row gives ErrLimiteInsuficiente whatever
\* its balance.
C17_ClassificaPelaLeitura ==
    \A p \in Iniciadas :
        /\ getRes[p] = ErrClienteNaoEncontrado
              => motivo[p] = ErrClienteNaoEncontrado
        /\ getRes[p] = Nil => motivo[p] = ErrLimiteInsuficiente

\* The positions at which call p issued the request op.
Posicoes(p, op) == {i \in DOMAIN pedidos[p] : pedidos[p][i] = op}

\* C18: a call issues at most one UpdateItem, and none after its follow-up
\* GetItem, whatever the read returned or failed with.
C18_UmaEscritaPorChamada ==
    \A p \in Iniciadas :
        /\ Cardinality(Posicoes(p, "UpdateItem")) <= 1
        /\ \A i \in Posicoes(p, "GetItem"), j \in Posicoes(p, "UpdateItem") : j < i
        /\ pc[p] = "processarLimite" => pedidos[p] = <<>>

\* A call has returned after one rejected write, the read and the Save.
C18_Witness ==
    \E p \in Iniciadas :
        /\ Retornou(p)
        /\ retorno[p] = ErrLimiteInsuficiente
        /\ pedidos[p] = <<"UpdateItem", "GetItem", "PutItem">>

\* C19: the first request of a call that passed validation is the
\* conditional UpdateItem; a GetItem is issued only as the second request,
\* after the UpdateItem was rejected by its condition.
C19_LeituraSoAposEscritaRejeitada ==
    \A p \in Iniciadas :
        /\ (ValidaParaDebito(T(p)) /\ pedidos[p] # <<>>)
              => pedidos[p][1] = "UpdateItem"
        /\ \A i \in Posicoes(p, "GetItem") :
              /\ i = 2
              /\ pedidos[p][1] = "UpdateItem"
              /\ updRes[p] = "ConditionalCheckFailed"
        /\ updRes[p] \in {"ok", "erro"} => Posicoes(p, "GetItem") = {}

\* One call read the customer after its rejected write; another one debited
\* and returned without reading.
C19_Witness ==
    /\ \E p \in Iniciadas :
          /\ updRes[p] = "ConditionalCheckFailed"
          /\ Posicoes(p, "GetItem") = {2}
    /\ \E q \in Iniciadas :
          /\ Retornou(q)
          /\ updRes[q] = "ok"
          /\ Posicoes(q, "GetItem") = {}

\* The step in which the publisher answers the task of call p.
PublicaPasso(p) == ~tarefa[p].feita /\ tarefa'[p].feita
\* What call p returns by the debit and the Save alone.
ResultadoDecidido(p) ==
    IF PelaRejeicao(p) THEN motivo[p] ELSE saveRes[p]

\* C20: the publish of a call runs after the call returned; failing or not,
\* it changes no result of any call, no balance and no log item, so that a
\* returned call has the result the debit and the Save decided, whether its
\* publish failed, succeeded or is still to run.
C20_ResultadoSemPublicacao ==
    /\ [](\A p \in Iniciadas :
             /\ tarefa[p].via # "" => Retornou(p)
             /\ Retornou(p) => retorno[p] = ResultadoDecidido(p))
    /\ [][\A p \in Todas :
             PublicaPasso(p) =>
                 /\ retorno' = retorno
                 /\ clientes' = clientes
                 /\ transacoes' = transacoes
                 /\ transacao' = transacao]_vars

\* The publish failed for an approved call and for a rejected one.
C20_Witness ==
    /\ \E p \in Iniciadas :
          /\ tarefa[p].erro = ErrPublicar
          /\ retorno[p] = Nil
          /\ transacoes[T(p).ID].status = StatusAprovada
    /\ \E q \in Iniciadas :
          /\ tarefa[q].erro = ErrPublicar
          /\ retorno[q] = ErrLimiteInsuficiente

\* The publish of call p was dispatched and has not been answered.
Pendente(p) == tarefa[p].via # "" /\ ~tarefa[p].feita

\* C21: while the publish of a call is dispatched and not answered (and so
\* in every run in which it never is), the call has returned its result.
C21_RetornaSemEsperarPublicacao ==
    \A p \in Iniciadas :
        Pendente(p) => /\ Retornou(p)
                       /\ retorno[p] = ResultadoDecidido(p)

\* An approved and a rejected call have returned, their publishes pending.
C21_Witness ==
    /\ \E p \in Iniciadas : Pendente(p) /\ retorno[p] = Nil
    /\ \E q \in Iniciadas : Pendente(q) /\ retorno[q] = ErrClienteNaoEncontrado

C23_CompletaAposDebito ==
    \A p \in Iniciadas :
        (Retornou(p) /\ updRes[p] = "ok") =>
            /\ T(p).Status = StatusAprovada
            /\ transacoes[T(p).ID].existe
            /\ tarefa[p].via = "PublishTransacaoAprovada"

\* Call p was rejected by the debit step for a business reason.
RejeicaoDeNegocio(p) ==
    motivo[p] \in {ErrLimiteInsuficiente, ErrClienteNaoEncontrado}

\* C24: a call rejected for ErrLimiteInsuficiente or ErrClienteNaoEncontrado
\* returns that reason, its conditional write wrote nothing, its Transacao
\* is in the log, the publish of a TRANSACAO_REJEITADA event is dispatched,
\* and a Transacao submitted once is REJEITADA, in the object and in the log.
C24_RejeicaoRegistrada ==
    \A p \in Iniciadas :
        (Retornou(p) /\ RejeicaoDeNegocio(p)) =>
            /\ retorno[p] = motivo[p]
            /\ updRes[p] = "ConditionalCheckFailed"
            /\ novoLimite[p] = -1
            /\ tarefa[p].via = "PublishTransacaoRejeitada"
            /\ transacoes[T(p).ID].existe
            /\ SoSua(p) =>
                  /\ T(p).Status = StatusRejeitada
                  /\ transacoes[T(p).ID] = ItemDe(T(p))
                  /\ tarefa[p].feita
                        => tarefa[p].evento.Evento = EventoTransacaoRejeitada

\* The fields an event copies from the Transacao it is built from.
Copia(e, t) ==
    /\ e.TransacaoID = t.ID
    /\ e.ClienteID = t.ClienteID
    /\ e.Valor = t.Valor
    /\ e.Timestamp = t.Timestamp
    /\ e.CorrelationID = t.CorrelationID

\* C25: every event given to the publisher is a TRANSACAO_APROVADA or a
\* TRANSACAO_REJEITADA event that carries the id, customer, amount, timestamp
\* and correlation id of its Transacao; the type is the one of the status
\* (for a Transacao submitted once, whose status no other call changes), and
\* the Transacao of a dispatched publish is never PENDENTE.
C25_EventoDoStatus ==
    \A p \in Iniciadas :
        /\ tarefa[p].via # "" =>
              T(p).Status \in {StatusAprovada, StatusRejeitada}
        /\ tarefa[p].feita =>
              /\ tarefa[p].evento.Evento
                    \in {EventoTransacaoAprovada, EventoTransacaoRejeitada}
              /\ Copia(tarefa[p].evento, T(p))
              /\ T(p).Timestamp >= 1
              /\ T(p).CorrelationID \in Chamadas
              /\ SoSua(p) =>
                    /\ T(p).Status = StatusAprovada
                          <=> tarefa[p].evento.Evento = EventoTransacaoAprovada
                    /\ T(p).Status = StatusRejeitada
                          <=> tarefa[p].evento.Evento = EventoTransacaoRejeitada

\* An approval event and a rejection event of two calls were published.
C25_Witness ==
    \E p, q \in Iniciadas :
        /\ tarefa[p].feita /\ tarefa[q].feita
        /\ tarefa[p].evento.Evento = EventoTransacaoAprovada
        /\ tarefa[q].evento.Evento = EventoTransacaoRejeitada
        /\ tarefa[p].evento.CorrelationID # tarefa[q].evento.CorrelationID
        /\ tarefa[p].evento.TransacaoID # tarefa[q].evento.TransacaoID

\* The error code of the response of call p.
Codigo(p) == categorizeError(retorno[p])

\* The rendering of the errors of the pipeline, but for store failures.
CodigoDoErro(p) ==
    /\ Codigo(p) \in {"insufficient_limit", "client_not_found",
                      "invalid_amount", "invalid_client", "internal_error"}
    /\ retorno[p] = ErrLimiteInsuficiente <=> Codigo(p) = "insufficient_limit"
    /\ retorno[p] = ErrClienteNaoEncontrado <=> Codigo(p) = "client_not_found"
    /\ retorno[p] \in {ErrValorNegativo, ErrValorZero}
          <=> Codigo(p) = "invalid_amount"
    /\ retorno[p] = ErrClienteInvalido <=> Codigo(p) = "invalid_client"
    /\ ErroDeValidacao(p) # Nil =>
          Codigo(p) \in {"invalid_amount", "invalid_client"}
    /\ (RejeicaoDeNegocio(p) /\ getRes[p] # "erro") =>
          Codigo(p) \in {"insufficient_limit", "client_not_found"}

\* C26: the error a call returns is rendered as exactly one code, by the
\* table of categorizeError; a validation or business rejection is never
\* rendered as internal_error, and a call whose debit step met a store
\* failure is never rendered as insufficient_limit or client_not_found.
C26_UmCodigoPorErro ==
    \A p \in Iniciadas :
        (Retornou(p) /\ retorno[p] # Nil) =>
            /\ CodigoDoErro(p)
            /\ (updRes[p] = "erro" \/ getRes[p] = "erro") =>
                  Codigo(p) \notin {"insufficient_limit", "client_not_found"}


\* C27: the balance of a customer that was provisioned changes only by the
\* committed conditional debits, whatever operations of LimiteRepository
\* run, and stays within 0 and the credit ceiling.
C27_SoDebitoMudaSaldo ==
    \A c \in Clientes :
        clientesInicial[c].existe =>
            /\ clientes[c].existe
            /\ clientesInicial[c].limite_atual - clientes[c].limite_atual
                  = Soma(Debitos(c))
            /\ 0 <= clientes[c].limite_atual
            /\ clientes[c].limite_atual <= clientes[c].limite_credito

\* C28: a call invokes the publisher at most once: no call has issued two
\* Publish requests, and once its publish was answered, with an error or
\* not, no further publish of the call can run.
C28_NoMaximoUmaPublicacao ==
    \A p \in Iniciadas :
        /\ Cardinality(Posicoes(p, "Publish")) <= 1
        /\ Posicoes(p, "Publish") # {} <=> tarefa[p].feita
        /\ tarefa[p].feita =>
              /\ ~ENABLED Publicar(p, Nil)
              /\ ~ENABLED Publicar(p, ErrPublicar)

\* The publishes of two calls failed; each call issued one Publish.
C28_Witness ==
    \E p, q \in Iniciadas :
        /\ p # q
        /\ tarefa[p].feita /\ tarefa[p].erro = ErrPublicar
        /\ tarefa[q].feita /\ tarefa[q].erro = ErrPublicar
        /\ Cardinality(Posicoes(p, "Publish")) = 1
        /\ Cardinality(Posicoes(q, "Publish")) = 1

\* C29: a Transacao made by NewTransacao is PENDENTE, has an id, a timestamp,
\* and the customer id, amount and correlation id it was given; two of them
\* never have the same id, whatever their arguments.
C29_NovaTransacaoPendente ==
    \A p \in Iniciadas :
        /\ T(p).Status = StatusPendente
        /\ T(p).ID # NoTransacao.ID
        /\ T(p).Timestamp # NoTransacao.Timestamp
        /\ T(p).ClienteID = requisicao[p].ClienteID
        /\ T(p).Valor = requisicao[p].Valor
        /\ T(p).CorrelationID = requisicao[p].CorrelationID
        /\ \A q \in Iniciadas \ {p} : T(q).ID # T(p).ID

\* Two Transacao were made from the same arguments.
C29_Witness ==
    \E p, q \in Iniciadas :
        /\ p # q
        /\ requisicao[p] = requisicao[q]
        /\ requisicao[p].CorrelationID = 1
        /\ requisicao[p].ClienteID = "c1"
        /\ T(p).ID # T(q).ID

\* The result of a returned call is definitive: nil or an error.
Definitivo(p) == Retornou(p) /\ retorno[p] # ""

\* C30: when every store request is answered, every call that started returns
\* a definitive result and issues at most three store requests and one
\* publish on the way, none of them twice; when the detached task is
\* scheduled, every dispatched publish is attempted.
C30_TerminaEPublica ==
    /\ [](\A p \in Iniciadas :
             /\ Len(pedidos[p]) <= 4
             /\ \A op \in {"UpdateItem", "GetItem", "PutItem", "Publish"} :
                   Cardinality(Posicoes(p, op)) <= 1
             /\ Retornou(p) => retorno[p] # "")
    /\ \A p \in Chamadas : Iniciada(p) ~> Definitivo(p)
    /\ \A p \in Chamadas : Pendente(p) ~> tarefa[p].feita

\* A call returned a system error after three store requests, another was
\* rejected and its publish was attempted.
C30_Witness ==
    \E p, q \in Iniciadas :
        /\ Definitivo(p)
        /\ categorizeError(retorno[p]) = "internal_error"
        /\ Len(pedidos[p]) = 3
        /\ Definitivo(q)
        /\ RejeicaoDeNegocio(q)
        /\ tarefa[q].feita

\* The log items of customer c with status APROVADA, by transaction id.
AprovadasNoLog(c) ==
    {i \in Todas : /\ transacoes[i].existe
                   /\ transacoes[i].cliente_id = c
                   /\ transacoes[i].status = StatusAprovada}

\* The centavos of the log items ids.
RECURSIVE SomaLog(_)
SomaLog(ids) ==
    IF ids = {} THEN 0
    ELSE LET i == CHOOSE j \in ids : TRUE
         IN  ValorCentavos(transacoes[i].valor) + SomaLog(ids \ {i})

\* C31: when no call is running, what each customer's balance lost since the
\* table was provisioned is the sum of the centavos of the customer's
\* APROVADA log items, whatever calls were made and whichever Save failed.
C31_ConservacaoDoLog ==
    Quiescente =>
        \A c \in Clientes :
            clientes[c].existe =>
                clientesInicial[c].limite_atual - clientes[c].limite_atual
                    = SomaLog(AprovadasNoLog(c))

\* C32: the log and the customer table agree on every transaction id, also
\* when a Transacao is submitted again: an APROVADA item is in the log only
\* for an id whose debit committed, a REJEITADA item only for an id of
\* which no debit committed.
C32_LogConcordaComDebito ==
    \A i \in Todas :
        transacoes[i].existe =>
            /\ transacoes[i].status = StatusAprovada => DebitosDoID(i) # {}
            /\ transacoes[i].status = StatusRejeitada => DebitosDoID(i) = {}

\* C33: no call raises a balance, whatever its amount: a committed write
\* leaves at most the balance it found and belongs to a call with a positive
\* amount, a call with a negative or zero amount issues no request to the
\* customer table, and no balance is above the provisioned one.
C33_SaldoNuncaAumenta ==
    /\ \A c \in Clientes :
          clientes[c].existe =>
              clientes[c].limite_atual <= clientesInicial[c].limite_atual
    /\ \A p \in Iniciadas :
          /\ updRes[p] = "ok" =>
                /\ novoLimite[p] <= limiteVisto[p]
                /\ T(p).Valor > 0
          /\ T(p).Valor <= 0 =>
                /\ Posicoes(p, "UpdateItem") = {}
                /\ Posicoes(p, "GetItem") = {}
                /\ pc[p] \notin {"processarLimite", "GetCliente", "aprovar"}

\* A call with an amount of minus one centavo was rejected, and a call with
\* a positive amount lowered the balance of the same customer.
C33_Witness ==
    \E p, q \in Iniciadas :
        /\ Retornou(p)
        /\ T(p).Valor = -SubUnidades
        /\ retorno[p] = ErrValorNegativo
        /\ T(q).ClienteID = T(p).ClienteID
        /\ updRes[q] = "ok"
        /\ novoLimite[q] < limiteVisto[q]

\* C34: an approved call debits at least one centavo: the write of a call
\* that passed validation commits only with a balance strictly below the
\* one it found, and no call whose amount converts to 0 centavos is approved.
C34_AprovadaDebitaAlgo ==
    \A p \in Iniciadas :
        /\ updRes[p] = "ok" => novoLimite[p] < limiteVisto[p]
        /\ (Retornou(p) /\ retorno[p] = Nil) => Centavos(p) >= 1

\* Call p takes the step that issues its UpdateItem, or its PutItem.
Debitando(p) == pc[p] = "processarLimite" /\ pc'[p] # pc[p]
Salvando(p) ==
    pc[p] \in {"salvarAprovada", "salvarRejeitada"} /\ pc'[p] # pc[p]

\* C35: a step changes the row of a customer only as the UpdateItem of a
\* call for that customer, and a log item only as the PutItem of a call
\* whose Transacao has that id; the rows of every other customer and the
\* items of every other id stay as they are.
C35_SoALinhaDoCliente ==
    [][/\ \A c \in Clientes :
             clientes'[c] # clientes[c] =>
                \E p \in Iniciadas : Debitando(p) /\ T(p).ClienteID = c
       /\ \A i \in Todas :
             transacoes'[i] # transacoes[i] =>
                \E p \in Iniciadas : Salvando(p) /\ T(p).ID = i
       /\ Cardinality({c \in Clientes : clientes'[c] # clientes[c]})
             + Cardinality({i \in Todas : transacoes'[i] # transacoes[i]})
                <= 1]_vars

\* Calls for two customers debited and were logged, each on its own row.
C35_Witness ==
    \E p, q \in Iniciadas :
        /\ T(p).ClienteID = "c1" /\ T(q).ClienteID = "c2"
        /\ updRes[p] = "ok" /\ updRes[q] = "ok"
        /\ Centavos(p) >= 1 /\ Centavos(q) >= 1
        /\ transacoes[T(p).ID].existe /\ transacoes[T(q).ID].existe
        /\ clientes["c1"].limite_atual
              = clientesInicial["c1"].limite_atual - Centavos(p)
        /\ clientes["c2"].limite_atual
              = clientesInicial["c2"].limite_atual - Centavos(q)

\* C36: an approval event is dispatched only by a call whose Save put the
\* item of its Transacao in the log (an APROVADA item, for a Transacao
\* submitted once, whose status no other call changes); a call whose debit committed and whose Save
\* failed, for a store error or a duplicate id, returns the error of Save,
\* dispatches nothing, and its debit stays in the balance.
C36_EventoSoAposSave ==
    \A p \in Iniciadas :
        /\ tarefa[p].via = "PublishTransacaoAprovada" =>
              /\ saveRes[p] = Nil
              /\ updRes[p] = "ok"
              /\ transacoes[T(p).ID].existe
              /\ SoSua(p) => transacoes[T(p).ID].status = StatusAprovada
        /\ (Retornou(p) /\ updRes[p] = "ok" /\ saveRes[p] # Nil) =>
              /\ retorno[p] = saveRes[p]
              /\ retorno[p] \in {ErrSalvar, ErrJaExiste}
              /\ tarefa[p] = NoTarefa
              /\ Saldo(p) <= novoLimite[p]
              /\ novoLimite[p] = limiteVisto[p] - Centavos(p)

\* A call debited a centavo, its Save failed on a store error and it
\* returned with no event dispatched; another call was approved and published.
C36_Witness ==
    \E p, q \in Iniciadas :
        /\ Retornou(p)
        /\ updRes[p] = "ok"
        /\ Centavos(p) >= 1
        /\ retorno[p] = ErrSalvar
        /\ tarefa[p] = NoTarefa
        /\ ~transacoes[T(p).ID].existe
        /\ retorno[q] = Nil
        /\ tarefa[q].via = "PublishTransacaoAprovada"
        /\ tarefa[q].feita

\* C37: a call that went through rejeitarTransacao returns the reason of the
\* rejection (the validation error of its Transacao, or the error of the
\* debit step) and dispatches the rejection event, whatever its Save and its
\* publish returned.
C37_RetornaOMotivo ==
    \A p \in Iniciadas :
        (Retornou(p) /\ PelaRejeicao(p)) =>
            /\ retorno[p] = motivo[p]
            /\ Valida(T(p)) # Nil => retorno[p] = Valida(T(p))
            /\ saveRes[p] \in {Nil, ErrSalvar, ErrJaExiste}
            /\ tarefa[p].via = "PublishTransacaoRejeitada"
            /\ ENABLED Publicar(p, Nil) \/ tarefa[p].feita

\* A rejection whose Save failed and whose publish failed was returned with
\* its reason.
C37_Witness ==
    \E p \in Iniciadas :
        /\ Retornou(p)
        /\ retorno[p] = ErrLimiteInsuficiente
        /\ saveRes[p] = ErrSalvar
        /\ ~transacoes[T(p).ID].existe
        /\ tarefa[p].feita
        /\ tarefa[p].erro = ErrPublicar

\* C38: the event a task published has the type of the operation it was
\* published through, also when its Transacao was submitted again.
C38_TipoDoEventoPelaVia ==
    \A p \in Iniciadas :
        tarefa[p].feita =>
            /\ tarefa[p].via = "PublishTransacaoAprovada"
                  => tarefa[p].evento.Evento = EventoTransacaoAprovada
            /\ tarefa[p].via = "PublishTransacaoRejeitada"
                  => tarefa[p].evento.Evento = EventoTransacaoRejeitada

\* The follow-up read of call p was answered by the store.
LeituraRespondida(p) == getRes[p] \in {Nil, ErrClienteNaoEncontrado}

\* C39: with conditional debits as the only writes of the customer table, a
\* call whose conditional write was rejected and whose follow-up read was
\* answered is rejected for ErrClienteNaoEncontrado or ErrLimiteInsuficiente
\* and never gets the error of a failed atomic operation, in every
\* interleaving with the debits of other calls.
C39_NuncaOperacaoAtomica ==
    \A p \in Iniciadas :
        /\ motivo[p] # ErrOperacaoAtomica
        /\ retorno[p] # ErrOperacaoAtomica
        /\ (updRes[p] = "ConditionalCheckFailed" /\ LeituraRespondida(p)) =>
              /\ RejeicaoDeNegocio(p)
              /\ motivo[p] = ErrLimiteInsuficiente =>
                    /\ T(p).ClienteID \in Clientes
                    /\ Saldo(p) < Centavos(p)

\* The write of call p was rejected for the balance, another call debited
\* the same customer from the balance p's write had found, and p was
\* rejected for an insufficient balance.
C39_Witness ==
    \E p, q \in Iniciadas :
        /\ p # q
        /\ updRes[p] = "ConditionalCheckFailed"
        /\ getRes[p] = Nil
        /\ retorno[p] = ErrLimiteInsuficiente
        /\ T(q).ClienteID = T(p).ClienteID
        /\ updRes[q] = "ok"
        /\ Centavos(q) >= 1
        /\ limiteVisto[q] = limiteVisto[p]
====
